---- MODULE Spec2Model ----
(***************************************************************************)
(* Model of src/2022/go-and-proxies/connect-mitm-proxy.go: the TLS         *)
(* intercepting CONNECT proxy (loadX509KeyPair, createForwardProxy,        *)
(* createCert, forwardProxy.ServeHTTP / proxyConnect, main).               *)
(*                                                                         *)
(* One process (main) loads the CA material and serves; the net/http       *)
(* server runs one goroutine per inbound connection, modelled as one       *)
(* session per connection slot.  log.Fatal is os.Exit(1): it ends the      *)
(* process and with it every session.                                      *)
(***************************************************************************)
EXTENDS Integers, Sequences, FiniteSets, TLC

\* ------------------------------------------------------------------ bounds
MaxConns == 2      \* connection slots the environment opens concurrently
MaxClock == 1      \* latest reading of time.Now() (hours)
MaxSerial == 2     \* size of the range rand.Int draws the serial number from
MaxHandlers == 2   \* task-server requests in flight at once
MaxTasks == 2      \* tasks the store may come to hold
MaxCallers == 2    \* goroutines calling the singleConnListener
MaxCalls == 2      \* Accept calls one caller makes

\* -------------------------------------------------------- program constants
HoursValid == 240                  \* createCert(..., 240)
StatusMethodNotAllowed == 405      \* http.StatusMethodNotAllowed
StatusServiceUnavailable == 503    \* http.StatusServiceUnavailable

Conns == 1..MaxConns
Handlers == 1..MaxHandlers
Callers == 1..MaxCallers

VARIABLES
    mainPc,     \* position of main: "start", "loaded", "serving", "exited", "panicked"
    load,       \* what loadX509KeyPair produced (NoLoad before it ran)
    proxy,      \* the forwardProxy {caCert, caKey} (NoProxy before construction)
    listening,  \* TRUE once http.ListenAndServe has bound the socket
    sess,       \* per connection slot: the state of its handler goroutine
    tsMu,       \* taskServer's sync.Mutex: 0 when free, else the handler holding it
    store,      \* taskServer.store: the tasks, the task with id i at place i + 1
    hand,       \* per task-server request goroutine: the state of its handler
    lnConn,     \* singleConnListener.conn: "conn" or "nil"
    lnMu,       \* singleConnListener.mu: 0 when free, else the caller holding it
    call        \* per caller of the singleConnListener: the state of its call

\* The variables of the proxy, of the task server and of the listener.
proxyVars == <<mainPc, load, proxy, listening, sess>>
taskVars == <<tsMu, store, hand>>
lnVars == <<lnConn, lnMu, call>>

vars == <<mainPc, load, proxy, listening, sess, tsMu, store, hand, lnConn, lnMu, call>>

\* ------------------------------------------------------------ CA material
\* A file on disk: whether ReadFile succeeds, whether its content holds a PEM
\* block, and what the DER bytes of that block parse as.
Files ==
    [readable : BOOLEAN, pem : BOOLEAN, der : {"cert", "key", "garbage"}]

NoLoad == [outcome |-> "none"]
NoProxy == [caCert |-> "nil", caKey |-> "nil"]

\* The subject of the CA certificate a good certificate file parses to.
CASubject == "RootCA"

\* pem.Decode: the block, or nil when the input holds no PEM block.
PemDecode(f) == IF f.pem THEN [nil |-> FALSE, bytes |-> f.der]
                         ELSE [nil |-> TRUE, bytes |-> "none"]

\* x509.ParseCertificate on the DER bytes of a block.
ParseCertificate(bytes) ==
    IF bytes = "cert" THEN [err |-> "none", cert |-> [subject |-> CASubject]]
                      ELSE [err |-> "parse", cert |-> "nil"]

\* x509.ParsePKCS8PrivateKey on the DER bytes of a block.
ParsePKCS8PrivateKey(bytes) ==
    IF bytes = "key" THEN [err |-> "none", key |-> "caKey"]
                     ELSE [err |-> "parse", key |-> "nil"]

\* loadX509KeyPair: returns (cert, key, nil), returns (nil, nil, err), or
\* panics when it reads .Bytes of the nil block pem.Decode gave it.
loadX509KeyPair(certFile, keyFile) ==
    IF ~certFile.readable THEN
        [outcome |-> "err", err |-> "unreadable", cert |-> "nil", key |-> "nil"]
    ELSE IF ~keyFile.readable THEN
        [outcome |-> "err", err |-> "unreadable", cert |-> "nil", key |-> "nil"]
    ELSE LET certBlock == PemDecode(certFile) IN
    IF certBlock.nil THEN
        [outcome |-> "panic", err |-> "nil-deref", cert |-> "nil", key |-> "nil"]
    ELSE LET pc == ParseCertificate(certBlock.bytes) IN
    IF pc.err # "none" THEN
        [outcome |-> "err", err |-> "parse", cert |-> "nil", key |-> "nil"]
    ELSE LET keyBlock == PemDecode(keyFile) IN
    IF keyBlock.nil THEN
        [outcome |-> "panic", err |-> "nil-deref", cert |-> "nil", key |-> "nil"]
    ELSE LET pk == ParsePKCS8PrivateKey(keyBlock.bytes) IN
    IF pk.err # "none" THEN
        [outcome |-> "err", err |-> "parse", cert |-> "nil", key |-> "nil"]
    ELSE
        [outcome |-> "ok", err |-> "none", cert |-> pc.cert, key |-> pk.key]

\* ---------------------------------------------------------------- sessions
NoCert == [issued |-> FALSE]

IdleSession ==
    [pc |-> "idle", method |-> "none", host |-> <<>>,
     status |-> 0, body |-> <<>>, upstream |-> "none", client |-> "none",
     cert |-> NoCert, raw |-> <<>>, hs |-> "none", relay |-> {},
     err |-> "none", steps |-> <<>>]

\* A task-server handler goroutine with no request.
IdleHandler ==
    [pc |-> "idle", kind |-> "none", bound |-> TRUE, param |-> "none",
     id |-> -1, found |-> TRUE, writes |-> <<>>]

\* A caller of the listener that has made no call yet.
IdleCaller == [pc |-> "idle", c |-> "nil", conns |-> 0, errs |-> 0, last |-> "none"]

Init ==
    /\ mainPc = "start"
    /\ load = NoLoad
    /\ proxy = NoProxy
    /\ listening = FALSE
    /\ sess = [c \in Conns |-> IdleSession]
    /\ tsMu = 0
    /\ store = <<>>
    /\ hand = [h \in Handlers |-> IdleHandler]
    /\ lnConn = "conn"
    /\ lnMu = 0
    /\ call = [k \in Callers |-> IdleCaller]

\* ------------------------------------------------------------------- main
\* createForwardProxy without the `if err != nil` exit: whatever the loader
\* gave is put in the proxy and main goes on to serve.
createForwardProxyIgnoringErr(certFile, keyFile) ==
    LET r == loadX509KeyPair(certFile, keyFile) IN
    /\ mainPc = "start"
    /\ load' = r
    /\ proxy' = [caCert |-> r.cert, caKey |-> r.key]
    /\ mainPc' = "loaded"
    /\ UNCHANGED <<listening, sess, taskVars, lnVars>>

\* createForwardProxy(caCertFile, caKeyFile), called from main: log.Fatal on a
\* load error, the Go runtime's panic exit on the nil dereference.
createForwardProxy(certFile, keyFile) ==
    LET r == loadX509KeyPair(certFile, keyFile) IN
    /\ mainPc = "start"
    /\ load' = r
    /\ IF r.outcome = "ok" THEN
            /\ proxy' = [caCert |-> r.cert, caKey |-> r.key]
            /\ mainPc' = "loaded"
       ELSE IF r.outcome = "err" THEN
            /\ proxy' = proxy
            /\ mainPc' = "exited"
       ELSE /\ proxy' = proxy
            /\ mainPc' = "panicked"
    /\ UNCHANGED <<listening, sess, taskVars, lnVars>>

LoadCA == \E cf \in Files, kf \in Files : createForwardProxy(cf, kf)

\* http.ListenAndServe(*addr, proxy): binds and serves, or returns an error
\* (address in use), on which main calls log.Fatal.
ListenAndServe ==
    /\ mainPc = "loaded"
    /\ \E bound \in BOOLEAN :
         IF bound THEN mainPc' = "serving" /\ listening' = TRUE
                  ELSE mainPc' = "exited" /\ listening' = FALSE
    /\ UNCHANGED <<load, proxy, sess, taskVars, lnVars>>

\* ------------------------------------------------------------ requests
Methods == {"CONNECT", "GET"}

\* req.Host values, as character sequences: a host:port, a bare host (no
\* port), a bracketed IPv6 literal with port.
Targets ==
    { <<"a", ":", "4">>, <<"a">>, <<"[", "a", ":", "b", "]", ":", "4">> }

\* Position of the first / last occurrence of ch in s, 0 when absent.
IndexByte(s, ch) ==
    IF \E i \in 1..Len(s) : s[i] = ch
        THEN CHOOSE i \in 1..Len(s) : s[i] = ch /\ \A j \in 1..(i-1) : s[j] # ch
        ELSE 0

LastIndexByte(s, ch) ==
    IF \E i \in 1..Len(s) : s[i] = ch
        THEN CHOOSE i \in 1..Len(s) : s[i] = ch /\ \A j \in (i+1)..Len(s) : s[j] # ch
        ELSE 0

\* net.SplitHostPort(req.Host): host, port and an error ("none" on success).
SplitHostPort(hostport) ==
    LET i == LastIndexByte(hostport, ":")
        bad(e) == [host |-> <<>>, port |-> <<>>, err |-> e]
    IN
    IF i = 0 THEN bad("missing port in address")
    ELSE IF hostport[1] = "[" THEN
        LET end == IndexByte(hostport, "]") IN
        IF end = 0 THEN bad("missing ']' in address")
        ELSE IF end = Len(hostport) THEN bad("missing port in address")
        ELSE IF end + 1 # i THEN
            IF hostport[end + 1] = ":" THEN bad("too many colons in address")
                                       ELSE bad("missing port in address")
        ELSE IF IndexByte(SubSeq(hostport, 2, Len(hostport)), "[") # 0
            THEN bad("unexpected '[' in address")
        ELSE IF IndexByte(SubSeq(hostport, end + 2, Len(hostport)), "]") # 0
            THEN bad("unexpected ']' in address")
        ELSE [host |-> SubSeq(hostport, 2, end - 1),
              port |-> SubSeq(hostport, i + 1, Len(hostport)), err |-> "none"]
    ELSE
        LET host == SubSeq(hostport, 1, i - 1) IN
        IF IndexByte(host, ":") # 0 THEN bad("too many colons in address")
        ELSE IF IndexByte(hostport, "[") # 0 THEN bad("unexpected '[' in address")
        ELSE IF IndexByte(hostport, "]") # 0 THEN bad("unexpected ']' in address")
        ELSE [host |-> host,
              port |-> SubSeq(hostport, i + 1, Len(hostport)), err |-> "none"]

\* sess with slot c replaced by record r.
SetSess(c, r) == sess' = [sess EXCEPT ![c] = r]

\* log.Fatal in the goroutine of session c: os.Exit(1).  The process ends
\* and the operating system closes every socket it held; every other
\* goroutine is gone with the process, whatever it was doing.
Fatal(c, kind) ==
    /\ mainPc' = "exited"
    /\ listening' = FALSE
    /\ sess' = [d \in Conns |->
                 IF d = c
                   THEN [sess[d] EXCEPT
                           !.pc = "fatal", !.err = kind,
                           !.upstream = IF @ = "open" THEN "closed" ELSE @,
                           !.client = "closed"]
                   ELSE IF sess[d].pc = "idle" THEN sess[d]
                   ELSE [IdleSession EXCEPT
                           !.pc = "killed",
                           !.upstream = IF sess[d].upstream = "none"
                                          THEN "none" ELSE "closed",
                           !.client = "closed"]]
    /\ UNCHANGED <<load, proxy, taskVars, lnVars>>

\* An accept loop that runs the handler inline instead of in a goroutine of
\* its own: a connection is accepted only when no handler is running.
AcceptOneAtATime(c) ==
    /\ mainPc = "serving"
    /\ sess[c].pc = "idle"
    /\ \A d \in Conns : sess[d].pc \in {"idle", "returned"}
    /\ \E m \in Methods, h \in Targets :
         SetSess(c, [IdleSession EXCEPT !.pc = "accepted", !.method = m,
                       !.host = h, !.client = "http"])
    /\ UNCHANGED <<mainPc, load, proxy, listening, taskVars, lnVars>>

\* The server accepts a connection and reads one request from it.
Accept(c) ==
    /\ mainPc = "serving"
    /\ sess[c].pc = "idle"
    /\ \E m \in Methods, h \in Targets :
         SetSess(c, [IdleSession EXCEPT !.pc = "accepted", !.method = m,
                       !.host = h, !.client = "http"])
    /\ UNCHANGED <<mainPc, load, proxy, listening, taskVars, lnVars>>

\* ServeHTTP without the method test: every request enters proxyConnect.
ServeHTTPAnyMethod(c) ==
    /\ mainPc = "serving"
    /\ sess[c].pc = "accepted"
    /\ SetSess(c, [sess[c] EXCEPT !.pc = "dialing",
                     !.steps = Append(@, "validated")])
    /\ UNCHANGED <<mainPc, load, proxy, listening, taskVars, lnVars>>

\* ServeHTTP: CONNECT enters proxyConnect, which blocks in net.Dial; any other
\* method is answered with http.Error(..., 405).
ServeHTTP(c) ==
    /\ mainPc = "serving"
    /\ sess[c].pc = "accepted"
    /\ IF sess[c].method = "CONNECT"
        THEN SetSess(c, [sess[c] EXCEPT !.pc = "dialing",
                           !.steps = Append(@, "validated")])
        ELSE SetSess(c, [sess[c] EXCEPT !.pc = "returned",
                           !.status = StatusMethodNotAllowed,
                           !.body = <<"this proxy only supports CONNECT", "\n">>,
                           !.steps = Append(@, "rejected")])
    /\ UNCHANGED <<mainPc, load, proxy, listening, taskVars, lnVars>>

\* net.Dial("tcp", req.Host) returns a connection.  Dial parses the address
\* itself, so it succeeds only for a well-formed host:port.
DialOK(c) ==
    /\ mainPc = "serving"
    /\ sess[c].pc = "dialing"
    /\ SplitHostPort(sess[c].host).err = "none"
    /\ SetSess(c, [sess[c] EXCEPT !.pc = "dialed", !.upstream = "open",
                     !.steps = Append(@, "dialed")])
    /\ UNCHANGED <<mainPc, load, proxy, listening, taskVars, lnVars>>

\* The text of the error net.Dial returns for a target.
DialError(hostport) ==
    IF SplitHostPort(hostport).err # "none"
        THEN SplitHostPort(hostport).err
        ELSE "connection refused"

\* A dial failure handled like the later failures: log.Fatal.
DialFailFatal(c) ==
    /\ mainPc = "serving"
    /\ sess[c].pc = "dialing"
    /\ Fatal(c, "dial")

\* A dial failure without the `return` after http.Error: the handler goes on
\* to the hijack.
DialFailNoReturn(c) ==
    /\ mainPc = "serving"
    /\ sess[c].pc = "dialing"
    /\ SplitHostPort(sess[c].host).err = "none"
    /\ SetSess(c, [sess[c] EXCEPT !.pc = "dialed", !.err = "dial",
                     !.status = StatusServiceUnavailable,
                     !.body = <<DialError(sess[c].host), "\n">>,
                     !.steps = Append(@, "dialfailed")])
    /\ UNCHANGED <<mainPc, load, proxy, listening, taskVars, lnVars>>

\* net.Dial fails: http.Error(w, err.Error(), 503) and return.
DialFail(c) ==
    /\ mainPc = "serving"
    /\ sess[c].pc = "dialing"
    /\ SetSess(c, [sess[c] EXCEPT !.pc = "returned", !.err = "dial",
                     !.status = StatusServiceUnavailable,
                     !.body = <<DialError(sess[c].host), "\n">>,
                     !.steps = Append(@, "dialfailed")])
    /\ UNCHANGED <<mainPc, load, proxy, listening, taskVars, lnVars>>

\* Lines 158-166: w.(http.Hijacker) and hj.Hijack().  Whether the
\* ResponseWriter of the serving stack implements http.Hijacker, and whether
\* Hijack succeeds, is the serving stack's; both failures are log.Fatal.
Hijack(c) ==
    /\ mainPc = "serving"
    /\ sess[c].pc = "dialed"
    /\ \E isHijacker \in BOOLEAN, ok \in BOOLEAN :
         IF ~isHijacker
           THEN Fatal(c, "hijackUnsupported")
           ELSE IF ~ok
             THEN Fatal(c, "hijackFailed")
             ELSE /\ SetSess(c, [sess[c] EXCEPT !.pc = "hijacked",
                                   !.client = "hijacked",
                                   !.steps = Append(@, "hijacked")])
                  /\ UNCHANGED <<mainPc, load, proxy, listening, taskVars, lnVars>>

\* ------------------------------------------------------------ certificates
\* pem.EncodeToMemory(&pem.Block{Type: t, Bytes: b}) and its inverse.
PemEncode(t, b) == [type |-> t, bytes |-> b]

\* createCert(dnsNames, parent, parentKey, hoursValid).  rnd holds what the
\* call draws from its environment: which of ecdsa.GenerateKey, rand.Int and
\* x509.CreateCertificate fails ("none" when none does), the serial number
\* drawn, and the two readings of time.Now().  A failure is log.Fatal.
createCert(dnsNames, parent, parentKey, hoursValid, rnd) ==
    IF rnd.fail # "none"
      THEN [fatal |-> TRUE, cert |-> PemEncode("none", "none"),
            priv |-> PemEncode("none", "none")]
      ELSE LET template ==
                 [serial |-> rnd.serial,
                  subject |-> "My Corp",
                  dnsNames |-> dnsNames,
                  notBefore |-> rnd.t1,
                  notAfter |-> rnd.t2 + hoursValid]
               \* x509.CreateCertificate: the issuer is the parent's subject and
               \* the signature is made with parentKey.
               der == [serial |-> template.serial,
                       subject |-> template.subject,
                       issuer |-> parent.subject,
                       signedBy |-> parentKey,
                       dnsNames |-> template.dnsNames,
                       notBefore |-> template.notBefore,
                       notAfter |-> template.notAfter]
           IN [fatal |-> FALSE,
               cert |-> PemEncode("CERTIFICATE", der),
               priv |-> PemEncode("PRIVATE KEY", "leafKey")]

\* tls.X509KeyPair(pemCert, pemKey): the parsed leaf, or an error.
X509KeyPair(pemCert, pemKey) ==
    IF pemCert.type = "CERTIFICATE" /\ pemKey.type = "PRIVATE KEY"
      THEN [err |-> "none", leaf |-> pemCert.bytes]
      ELSE [err |-> "tls: failed to find PEM data", leaf |-> "nil"]

\* What one createCert call may draw: the second reading of time.Now() is
\* not before the first, and less than hoursValid after it.
Draws ==
    { r \in [fail : {"none"}, serial : 0..(MaxSerial - 1),
             t1 : 0..MaxClock, t2 : 0..MaxClock] :
        r.t1 <= r.t2 /\ r.t2 <= r.t1 + 1 }
    \cup [fail : {"key", "serial", "sign"}, serial : {0}, t1 : {0}, t2 : {0}]

\* The DNS name list with the SplitHostPort call left out: req.Host itself.
CertNamesWithPort(hostport) == << hostport >>

\* The DNS name list proxyConnect asks a certificate for.
CertNames(hostport) == << SplitHostPort(hostport).host >>

\* Lines 168-180 with the status line written after the handshake instead
\* of before it: the handler enters raw.Handshake() with nothing written.
IssueThenHandshakeFirst(c) ==
    /\ mainPc = "serving"
    /\ sess[c].pc = "hijacked"
    /\ SplitHostPort(sess[c].host).err = "none"
    /\ \E rnd \in Draws :
         LET r == createCert(CertNames(sess[c].host), proxy.caCert,
                             proxy.caKey, HoursValid, rnd)
         IN /\ ~r.fatal
            /\ SetSess(c, [sess[c] EXCEPT !.pc = "handshaking",
                   !.cert = [issued |-> TRUE, leaf |-> r.cert.bytes,
                             issuedAt |-> rnd.t2],
                   !.steps = Append(@, "issued")])
    /\ UNCHANGED <<mainPc, load, proxy, listening, taskVars, lnVars>>

\* Lines 168-180 with a certificate cache keyed by req.Host: when another
\* session holds a certificate for the same target it is reused and
\* createCert is not called.
IssueFromCache(c) ==
    /\ mainPc = "serving"
    /\ sess[c].pc = "hijacked"
    /\ SplitHostPort(sess[c].host).err = "none"
    /\ LET hit == {d \in Conns \ {c} :
                     sess[d].cert.issued /\ sess[d].host = sess[c].host}
       IN IF hit # {}
            THEN \E d \in hit :
                   SetSess(c, [sess[c] EXCEPT !.pc = "handshaking",
                                 !.cert = sess[d].cert,
                                 !.raw = Append(@, "HTTP/1.1 200 OK\r\n\r\n"),
                                 !.steps = Append(@, "wrote200")])
            ELSE \E rnd \in Draws :
                   LET r == createCert(CertNames(sess[c].host), proxy.caCert,
                                       proxy.caKey, HoursValid, rnd)
                   IN /\ ~r.fatal
                      /\ SetSess(c, [sess[c] EXCEPT !.pc = "handshaking",
                             !.cert = [issued |-> TRUE, leaf |-> r.cert.bytes,
                                       issuedAt |-> rnd.t2],
                             !.raw = Append(@, "HTTP/1.1 200 OK\r\n\r\n"),
                             !.steps = @ \o <<"issued", "wrote200">>])
    /\ UNCHANGED <<mainPc, load, proxy, listening, taskVars, lnVars>>

\* Lines 168-180 with the write of the status line moved before createCert.
Write200ThenIssue(c) ==
    /\ mainPc = "serving"
    /\ sess[c].pc = "hijacked"
    /\ SplitHostPort(sess[c].host).err = "none"
    /\ \E rnd \in Draws :
         LET r == createCert(CertNames(sess[c].host), proxy.caCert,
                             proxy.caKey, HoursValid, rnd)
         IN /\ ~r.fatal
            /\ SetSess(c, [sess[c] EXCEPT !.pc = "handshaking",
                   !.cert = [issued |-> TRUE, leaf |-> r.cert.bytes,
                             issuedAt |-> rnd.t2],
                   !.raw = Append(@, "HTTP/1.1 200 OK\r\n\r\n"),
                   !.steps = @ \o <<"wrote200", "issued">>])
    /\ UNCHANGED <<mainPc, load, proxy, listening, taskVars, lnVars>>

\* Lines 168-180, straight-line code between Hijack and the handshake:
\* net.SplitHostPort, createCert, tls.X509KeyPair, then clientConn.Write of
\* the status line on the raw stream.  Each failure is log.Fatal.  On success
\* the handler enters raw.Handshake().
IssueAndWrite200(c) ==
    /\ mainPc = "serving"
    /\ sess[c].pc = "hijacked"
    /\ IF SplitHostPort(sess[c].host).err # "none"
        THEN Fatal(c, "splitHostPort")
        ELSE \E rnd \in Draws :
          LET r == createCert(CertNames(sess[c].host), proxy.caCert,
                              proxy.caKey, HoursValid, rnd)
              kp == X509KeyPair(r.cert, r.priv)
          IN IF r.fatal THEN Fatal(c, "issuance")
             ELSE IF kp.err # "none" THEN Fatal(c, "x509KeyPair")
             ELSE \/ Fatal(c, "write200")
                  \/ /\ SetSess(c, [sess[c] EXCEPT !.pc = "handshaking",
                            !.cert = [issued |-> TRUE, leaf |-> kp.leaf,
                                      issuedAt |-> rnd.t2],
                            !.raw = Append(@, "HTTP/1.1 200 OK\r\n\r\n"),
                            !.steps = @ \o <<"issued", "wrote200">>])
                     /\ UNCHANGED <<mainPc, load, proxy, listening, taskVars, lnVars>>

\* The copy loops proxyConnect starts once the handshake is done: both
\* `go tunnelConn(...)` statements are commented out, so none.
RelayLoops == {}

\* raw.Handshake() returns nil: the handler drops targetConn (`_ = targetConn`)
\* and returns.  Neither connection is closed; the handler's locals (tlsCert,
\* tlsConfig, raw) go out of scope.
HandshakeOK(c) ==
    /\ mainPc = "serving"
    /\ sess[c].pc = "handshaking"
    /\ SetSess(c, [sess[c] EXCEPT !.pc = "returned", !.hs = "ok",
                     !.cert = NoCert, !.relay = RelayLoops,
                     !.steps = Append(@, "handshake")])
    /\ UNCHANGED <<mainPc, load, proxy, listening, taskVars, lnVars>>

\* A failed handshake handled by going back to issue another certificate.
HandshakeFailRetry(c) ==
    /\ mainPc = "serving"
    /\ sess[c].pc = "handshaking"
    /\ SetSess(c, [sess[c] EXCEPT !.pc = "hijacked", !.cert = NoCert])
    /\ UNCHANGED <<mainPc, load, proxy, listening, taskVars, lnVars>>

\* raw.Handshake() returns an error (the client rejects the certificate,
\* sends no valid hello, or the stream fails): log.Fatal.
HandshakeFail(c) ==
    /\ mainPc = "serving"
    /\ sess[c].pc = "handshaking"
    /\ Fatal(c, "handshake")

\* The client closes a connection whose request was answered through the
\* HTTP framework; the slot can serve a later connection.
ConnClose(c) ==
    /\ mainPc = "serving"
    /\ sess[c].pc = "returned"
    /\ sess[c].client = "http"
    /\ SetSess(c, IdleSession)
    /\ UNCHANGED <<mainPc, load, proxy, listening, taskVars, lnVars>>

Next ==
    \/ LoadCA
    \/ ListenAndServe
    \/ \E c \in Conns :
         \/ Accept(c)
         \/ ServeHTTP(c)
         \/ DialOK(c)
         \/ DialFail(c)
         \/ Hijack(c)
         \/ IssueAndWrite200(c)
         \/ HandshakeOK(c)
         \/ HandshakeFail(c)
         \/ ConnClose(c)

Spec == Init /\ [][Next]_vars

\* ---------------------------------------------------------------- fairness
\* The steps a handler goroutine takes by itself once it is runnable.
HandlerStep(c) == ServeHTTP(c) \/ Hijack(c) \/ IssueAndWrite200(c)

\* net.Dial returns: it is called without a timeout, and the resolver and the
\* kernel's connect give up by themselves.
DialReturns(c) == DialOK(c) \/ DialFail(c)

\* The Go scheduler runs every runnable goroutine, and a dial ends.  Nothing
\* makes raw.Handshake() return: no deadline is set on clientConn, so it
\* returns only when the client sends something or closes.
FairSpec ==
    /\ Spec
    /\ WF_vars(LoadCA)
    /\ WF_vars(ListenAndServe)
    /\ \A c \in Conns : WF_vars(HandlerStep(c)) /\ WF_vars(DialReturns(c))

\* ------------------------------------------------------------- task server
\* taskstore.TaskStore: CreateTask appends a task and returns its id,
\* GetTask returns the task of an id or an error, GetAllTasks returns all.
CreateTask(st, text) == [store |-> Append(st, text), id |-> Len(st)]

GetTask(st, id) ==
    IF id \in 0..(Len(st) - 1) THEN [err |-> "none", task |-> st[id + 1]]
                               ELSE [err |-> "not found", task |-> ""]

GetAllTasks(st) == st

\* The :id route parameters a request may carry, and strconv.Atoi of them.
Params == {"0", "1", "x"}

Atoi(p) ==
    IF p = "0" THEN [err |-> "none", n |-> 0]
    ELSE IF p = "1" THEN [err |-> "none", n |-> 1]
    ELSE [err |-> "invalid syntax", n |-> 0]

SetHand(h, r) == hand' = [hand EXCEPT ![h] = r]

\* getAllTasksHandler without ts.Lock(): the store is read at once.
getAllTasksHandlerNoLock(h) ==
    /\ hand[h].pc = "idle"
    /\ SetHand(h, [IdleHandler EXCEPT !.pc = "store", !.kind = "getAll"])
    /\ UNCHANGED <<tsMu, store, proxyVars, lnVars>>

\* getAllTasksHandler up to ts.Lock().
getAllTasksHandler(h) ==
    /\ hand[h].pc = "idle"
    /\ SetHand(h, [IdleHandler EXCEPT !.pc = "lock", !.kind = "getAll"])
    /\ UNCHANGED <<tsMu, store, proxyVars, lnVars>>

\* createTaskHandler up to ts.Lock(): c.ShouldBindJSON(&rt); on an error
\* c.String(400, ...) is called and the handler goes on (there is no return).
createTaskHandler(h) ==
    /\ hand[h].pc = "idle"
    /\ Len(store) + Cardinality({g \in Handlers : hand[g].kind = "create"
                                   /\ hand[g].pc \in {"lock", "store"}}) < MaxTasks
    /\ \E ok \in BOOLEAN :
         SetHand(h, [IdleHandler EXCEPT !.pc = "lock", !.kind = "create",
                       !.bound = ok,
                       !.writes = IF ok THEN <<>> ELSE <<400>>])
    /\ UNCHANGED <<tsMu, store, proxyVars, lnVars>>

\* getTaskHandler up to ts.Lock(): strconv.Atoi of the id parameter; on an
\* error c.String(400, ...) and return.
getTaskHandler(h) ==
    /\ hand[h].pc = "idle"
    /\ \E p \in Params :
         IF Atoi(p).err # "none"
           THEN SetHand(h, [IdleHandler EXCEPT !.pc = "done", !.kind = "get",
                              !.param = p, !.writes = <<400>>])
           ELSE SetHand(h, [IdleHandler EXCEPT !.pc = "lock", !.kind = "get",
                              !.param = p, !.id = Atoi(p).n])
    /\ UNCHANGED <<tsMu, store, proxyVars, lnVars>>

\* ts.Lock(): blocks until the mutex is free.
TsLock(h) ==
    /\ hand[h].pc = "lock"
    /\ tsMu = 0
    /\ tsMu' = h
    /\ SetHand(h, [hand[h] EXCEPT !.pc = "store"])
    /\ UNCHANGED <<store, proxyVars, lnVars>>

\* The store call of the handler: GetAllTasks, CreateTask(rt.Text, ...) with
\* rt as bound (the zero value when binding failed), or GetTask(id).
StoreOp(h) ==
    /\ hand[h].pc = "store"
    /\ IF hand[h].kind = "create"
         THEN LET r == CreateTask(store, IF hand[h].bound THEN "text" ELSE "")
              IN /\ store' = r.store
                 /\ SetHand(h, [hand[h] EXCEPT !.pc = "unlock", !.id = r.id])
         ELSE IF hand[h].kind = "get"
         THEN /\ store' = store
              /\ SetHand(h, [hand[h] EXCEPT !.pc = "unlock",
                               !.found = (GetTask(store, hand[h].id).err = "none")])
         ELSE /\ store' = GetAllTasks(store)
              /\ SetHand(h, [hand[h] EXCEPT !.pc = "unlock"])
    /\ UNCHANGED <<tsMu, proxyVars, lnVars>>

\* ts.Unlock().
TsUnlock(h) ==
    /\ hand[h].pc = "unlock"
    /\ tsMu' = 0
    /\ SetHand(h, [hand[h] EXCEPT !.pc = "respond"])
    /\ UNCHANGED <<store, proxyVars, lnVars>>

\* The response after the store call: c.JSON(200, ...), or for getTaskHandler
\* c.String(404, ...) when GetTask returned an error.
Respond(h) ==
    /\ hand[h].pc = "respond"
    /\ SetHand(h, [hand[h] EXCEPT !.pc = "done",
                     !.writes = Append(@, IF hand[h].kind = "get" /\ ~hand[h].found
                                            THEN 404 ELSE 200)])
    /\ UNCHANGED <<tsMu, store, proxyVars, lnVars>>

\* The handler has returned and its goroutine serves the next request.
HandlerReturn(h) ==
    /\ hand[h].pc = "done"
    /\ SetHand(h, IdleHandler)
    /\ UNCHANGED <<tsMu, store, proxyVars, lnVars>>

TaskNext ==
    \E h \in Handlers :
      \/ getAllTasksHandler(h)
      \/ createTaskHandler(h)
      \/ getTaskHandler(h)
      \/ TsLock(h)
      \/ StoreOp(h)
      \/ TsUnlock(h)
      \/ Respond(h)
      \/ HandlerReturn(h)

TaskSpec == Init /\ [][TaskNext]_vars

\* ------------------------------------------------------ singleConnListener
SetCall(k, r) == call' = [call EXCEPT ![k] = r]

\* Accept entered without waiting for l.mu.
AcceptLockNoWait(k) ==
    /\ call[k].pc = "idle"
    /\ call[k].conns + call[k].errs < MaxCalls
    /\ lnMu' = k
    /\ SetCall(k, [call[k] EXCEPT !.pc = "locked"])
    /\ UNCHANGED <<lnConn, proxyVars, taskVars>>

\* Accept: l.mu.Lock() blocks until the mutex is free.
AcceptLock(k) ==
    /\ call[k].pc = "idle"
    /\ call[k].conns + call[k].errs < MaxCalls
    /\ lnMu = 0
    /\ lnMu' = k
    /\ SetCall(k, [call[k] EXCEPT !.pc = "locked"])
    /\ UNCHANGED <<lnConn, proxyVars, taskVars>>

\* Accept: if l.conn == nil the call returns nil, io.ErrClosedPipe;
\* otherwise c := l.conn.
AcceptCheck(k) ==
    /\ call[k].pc = "locked"
    /\ IF lnConn = "nil"
         THEN SetCall(k, [call[k] EXCEPT !.pc = "ret", !.c = "nil"])
         ELSE SetCall(k, [call[k] EXCEPT !.pc = "clear", !.c = lnConn])
    /\ UNCHANGED <<lnConn, lnMu, proxyVars, taskVars>>

\* Accept: l.conn = nil.
AcceptClear(k) ==
    /\ call[k].pc = "clear"
    /\ lnConn' = "nil"
    /\ SetCall(k, [call[k] EXCEPT !.pc = "ret"])
    /\ UNCHANGED <<lnMu, proxyVars, taskVars>>

\* Accept returns (c, nil) or (nil, io.ErrClosedPipe); the deferred
\* l.mu.Unlock() runs.
AcceptReturn(k) ==
    /\ call[k].pc = "ret"
    /\ lnMu' = 0
    /\ SetCall(k, IF call[k].c = "nil"
                    THEN [call[k] EXCEPT !.pc = "idle", !.errs = @ + 1,
                                         !.last = "ErrClosedPipe"]
                    ELSE [call[k] EXCEPT !.pc = "idle", !.conns = @ + 1,
                                         !.c = "nil", !.last = "conn"])
    /\ UNCHANGED <<lnConn, proxyVars, taskVars>>

\* Close returns nil.
Close(k) ==
    /\ call[k].pc = "idle"
    /\ SetCall(k, [call[k] EXCEPT !.last = "Close"])
    /\ UNCHANGED <<lnConn, lnMu, proxyVars, taskVars>>

\* Addr returns nil.
Addr(k) ==
    /\ call[k].pc = "idle"
    /\ SetCall(k, [call[k] EXCEPT !.last = "Addr"])
    /\ UNCHANGED <<lnConn, lnMu, proxyVars, taskVars>>

LnNext ==
    \E k \in Callers :
      \/ AcceptLock(k)
      \/ AcceptCheck(k)
      \/ AcceptClear(k)
      \/ AcceptReturn(k)
      \/ Close(k)
      \/ Addr(k)

LnSpec == Init /\ [][LnNext]_vars

\* ------------------------------------------------------------------ claims
\* Position of step name n in the history of session c, 0 when absent.
StepAt(c, n) == IndexByte(sess[c].steps, n)

\* The status line the handler writes on the hijacked stream.
Line200 == "HTTP/1.1 200 OK\r\n\r\n"

\* C1: a request whose method is not CONNECT is answered 405, and neither the
\* upstream dial nor the hijack is ever attempted for it.
C1_NonConnectIs405 ==
    \A c \in Conns :
      (sess[c].method \notin {"none", "CONNECT"} /\ sess[c].pc # "accepted") =>
        /\ sess[c].status = StatusMethodNotAllowed
        /\ sess[c].pc = "returned"
        /\ StepAt(c, "validated") = 0
        /\ StepAt(c, "dialed") = 0 /\ StepAt(c, "dialfailed") = 0
        /\ StepAt(c, "hijacked") = 0
        /\ sess[c].upstream = "none"
        /\ sess[c].client = "http"

C1_Witness ==
    \E c \in Conns :
      /\ sess[c].method = "GET" /\ sess[c].pc = "returned"
      /\ sess[c].status = StatusMethodNotAllowed

\* C2: a CONNECT whose dial fails is answered 503 with the dial error as
\* body, never reaches the hijack, and the step that handles the failure
\* leaves the process serving and the listener bound.
C2_DialFailureIs503 ==
    [][\A c \in Conns :
         sess'[c].err = "dial" =>
           /\ sess'[c].status = StatusServiceUnavailable
           /\ Len(sess'[c].body) >= 1
           /\ sess'[c].body[1] = DialError(sess'[c].host)
           /\ IndexByte(sess'[c].steps, "hijacked") = 0
           /\ sess'[c].client = "http"
           /\ sess'[c].raw = <<>>
           /\ (sess[c].err # "dial" => (mainPc' = "serving" /\ listening'))
      ]_vars

C2_Witness ==
    \E c \in Conns :
      /\ sess[c].err = "dial" /\ sess[c].pc = "returned"
      /\ sess[c].status = StatusServiceUnavailable
      /\ mainPc = "serving" /\ listening
      /\ \E d \in Conns : d # c /\ sess[d].pc = "accepted"

\* C3: the 200 line is on the client's stream only after the upstream dial of
\* that session succeeded, and the TLS handshake of that session completes
\* only after the 200 line was written.
C3_Ordering ==
    \A c \in Conns :
      /\ (sess[c].raw # <<>>) =>
            /\ sess[c].raw = <<Line200>>
            /\ sess[c].upstream # "none"
            /\ 0 < StepAt(c, "dialed")
            /\ StepAt(c, "dialed") < StepAt(c, "wrote200")
      /\ (sess[c].hs = "ok") =>
            /\ sess[c].raw = <<Line200>>
            /\ 0 < StepAt(c, "wrote200")
            /\ StepAt(c, "wrote200") < StepAt(c, "handshake")

C3_Witness ==
    \E c \in Conns :
      /\ sess[c].hs = "ok" /\ sess[c].raw = <<Line200>>
      /\ sess[c].upstream = "open"

\* C4: an error of certificate issuance, of the write of the 200 line or of
\* the TLS handshake stays with its connection: the process keeps serving.
C4_ErrorsAreConnectionScoped ==
    \A c \in Conns :
      sess[c].err \in {"splitHostPort", "issuance", "x509KeyPair",
                       "write200", "handshake"} =>
        /\ mainPc = "serving"
        /\ \A d \in Conns : sess[d].pc # "killed"

\* C5: when the connection cannot be hijacked the request is answered with a
\* 5xx status and the process keeps serving.
C5_HijackFailureIs5xx ==
    \A c \in Conns :
      sess[c].err \in {"hijackUnsupported", "hijackFailed"} =>
        /\ sess[c].status \in 500..599
        /\ mainPc = "serving"

\* C6: once the client handshake is done and the upstream connection is open,
\* the two copy loops, client->upstream and upstream->client, are running.
C6_RelayLoopsRun ==
    \A c \in Conns :
      (sess[c].hs = "ok" /\ sess[c].upstream = "open") =>
        sess[c].relay = {"client->upstream", "upstream->client"}

\* C7: when proxyConnect has ended after a successful dial, the upstream
\* connection and the hijacked client connection are closed.
C7_SocketsReleased ==
    \A c \in Conns :
      (sess[c].pc \in {"returned", "fatal", "killed"} /\ sess[c].upstream # "none") =>
        /\ sess[c].upstream = "closed"
        /\ sess[c].client = "closed"

\* C8: the process binds and serves only when the CA certificate and key
\* were loaded: with unreadable or malformed material it ends before
\* http.ListenAndServe.
C8_NoServingWithoutCA ==
    /\ (listening \/ mainPc \in {"loaded", "serving"}
          \/ \E c \in Conns : sess[c].pc # "idle")
         => (load.outcome = "ok" /\ proxy = [caCert |-> load.cert, caKey |-> load.key])
    /\ load.outcome \in {"err", "panic"} =>
         (mainPc \in {"exited", "panicked"} /\ ~listening)

C8_Witness ==
    /\ load.outcome = "err" /\ load.err = "parse"
    /\ mainPc = "exited" /\ ~listening

\* C9: for every input the CA loader returns the authority or returns an
\* error; it fails in no other way.
C9_LoaderReturnsOrErrors ==
    /\ load.outcome \in {"none", "ok", "err"}
    /\ load.outcome = "err" => load.err \in {"unreadable", "pem", "parse"}

\* Whether h is the host part of the host:port target: the text before the
\* last colon, without the brackets of an IPv6 literal.
IsHostPartOf(h, target) ==
    \E k \in 1..Len(target) :
      /\ target[k] = ":"
      /\ \A j \in (k + 1)..Len(target) : target[j] # ":"
      /\ \/ h = SubSeq(target, 1, k - 1)
         \/ <<"[">> \o h \o <<"]">> = SubSeq(target, 1, k - 1)

\* C10: the forged certificate of a session is issued by the loaded Root
\* Authority, its DNS names are exactly the host part of the CONNECT target,
\* and NotBefore <= issuance time <= NotAfter.
C10_ForgedCertificate ==
    \A c \in Conns :
      sess[c].cert.issued =>
        LET leaf == sess[c].cert.leaf IN
        /\ leaf.issuer = proxy.caCert.subject
        /\ leaf.signedBy = proxy.caKey
        /\ Len(leaf.dnsNames) = 1
        /\ IsHostPartOf(leaf.dnsNames[1], sess[c].host)
        /\ leaf.notBefore <= sess[c].cert.issuedAt
        /\ sess[c].cert.issuedAt <= leaf.notAfter

C10_Witness ==
    \E c \in Conns :
      /\ sess[c].pc = "handshaking" /\ sess[c].cert.issued
      /\ sess[c].host = <<"[", "a", ":", "b", "]", ":", "4">>
      /\ sess[c].cert.leaf.dnsNames = << <<"a", ":", "b">> >>
      /\ sess[c].cert.leaf.notBefore < sess[c].cert.issuedAt

\* C11 as stated: two CONNECTs to the same host that both hold a forged
\* certificate hold certificates with different serial numbers.
C11_SerialsDiffer ==
    \A c, d \in Conns :
      (c # d /\ sess[c].cert.issued /\ sess[d].cert.issued
         /\ sess[c].host = sess[d].host) =>
        sess[c].cert.leaf.serial # sess[d].cert.leaf.serial

\* C11 as amended: every CONNECT that holds a forged certificate performed
\* its own issuance (its own createCert call, before its 200 line), with a
\* serial number drawn from the range of rand.Int; nothing is taken from
\* another connection.
C11_OwnIssuance ==
    \A c \in Conns :
      sess[c].cert.issued =>
        /\ 0 < StepAt(c, "issued")
        /\ StepAt(c, "hijacked") < StepAt(c, "issued")
        /\ sess[c].cert.leaf.serial \in 0..(MaxSerial - 1)
        /\ sess[c].cert.leaf.dnsNames = CertNames(sess[c].host)

C11_Witness ==
    \E c, d \in Conns :
      /\ c # d /\ sess[c].host = sess[d].host
      /\ sess[c].pc = "handshaking" /\ sess[d].pc = "handshaking"
      /\ sess[c].cert.leaf.serial # sess[d].cert.leaf.serial

\* C12: while one session is blocked in its upstream dial or in its TLS
\* handshake, another connection can be accepted and every step of its
\* handler can be taken: no session waits for another one.
C12_AcceptNeverBlocks ==
    \A c, d \in Conns :
      (c # d /\ mainPc = "serving" /\ sess[c].pc \in {"dialing", "handshaking"}) =>
        /\ sess[d].pc = "idle" => ENABLED Accept(d)
        /\ sess[d].pc = "accepted" => ENABLED ServeHTTP(d)
        /\ sess[d].pc = "dialing" => ENABLED DialFail(d)
        /\ sess[d].pc = "dialed" => ENABLED Hijack(d)
        /\ sess[d].pc = "hijacked" => ENABLED IssueAndWrite200(d)
        /\ (sess[d].pc = "returned" /\ sess[d].client = "http") => ENABLED ConnClose(d)

C12_Witness ==
    \E c, d \in Conns :
      /\ c # d /\ mainPc = "serving"
      /\ sess[c].pc = "handshaking"
      /\ sess[d].pc = "returned" /\ sess[d].status = StatusMethodNotAllowed
      /\ ENABLED ConnClose(d)

\* C13: the upstream dial and the client TLS handshake of a session each
\* eventually end, whatever the upstream host and the client do.
C13_DialAndHandshakeEnd ==
    \A c \in Conns :
      /\ (sess[c].pc = "dialing") ~> (sess[c].pc # "dialing")
      /\ (sess[c].pc = "handshaking") ~> (sess[c].pc # "handshaking")

\* The Tunnel Session state a session record is in: Dialing from the entry of
\* proxyConnect until the hijack, Relaying once the handshake succeeded (both
\* legs are established), Closed once the handler ended otherwise or the
\* process exited; None before a CONNECT entered proxyConnect.
TunnelState(r) ==
    IF r.pc \in {"fatal", "killed"} THEN "Closed"
    ELSE IF r.pc \in {"dialing", "dialed"} THEN "Dialing"
    ELSE IF r.pc = "hijacked" THEN "Hijacked"
    ELSE IF r.pc = "handshaking" THEN "Handshaking"
    ELSE IF r.pc = "returned" /\ r.hs = "ok" THEN "Relaying"
    ELSE IF r.pc = "returned" /\ r.method = "CONNECT" THEN "Closed"
    ELSE "None"

StateRank(st) ==
    CASE st = "None" -> 0 [] st = "Dialing" -> 1 [] st = "Hijacked" -> 2
      [] st = "Handshaking" -> 3 [] st = "Relaying" -> 4 [] st = "Closed" -> 5

\* C14: a session's state only stays, advances by one in the order
\* Dialing -> Hijacked -> Handshaking -> Relaying -> Closed, or steps to
\* Closed; Relaying is entered only from Handshaking with the handshake
\* succeeded; nothing leaves Closed (the slot of a closed session can only be
\* freed for a new connection).
C14_StateOrder ==
    [][\A c \in Conns :
         LET a == TunnelState(sess[c])
             b == TunnelState(sess'[c])
         IN /\ \/ a = b
               \/ b = "Closed"
               \/ StateRank(b) = StateRank(a) + 1
               \/ a = "Closed" /\ sess'[c] = IdleSession
            /\ (b = "Relaying" /\ a # "Relaying") =>
                  (a = "Handshaking" /\ sess'[c].hs = "ok")
            /\ a = "Closed" => (b = "Closed" \/ sess'[c] = IdleSession)
      ]_vars

C14_Witness ==
    \E c, d \in Conns :
      /\ TunnelState(sess[c]) = "Relaying"
      /\ sess[c].steps = <<"validated", "dialed", "hijacked", "issued",
                           "wrote200", "handshake">>
      /\ TunnelState(sess[d]) = "Closed" /\ sess[d].err = "dial"

\* Whether the steps of session c that are named in order occurred in that
\* order, none of them without the ones named before it.
StepsInOrder(c, order) ==
    \A i, j \in 1..Len(order) :
      (i < j /\ StepAt(c, order[j]) > 0) =>
        (0 < StepAt(c, order[i]) /\ StepAt(c, order[i]) < StepAt(c, order[j]))

\* C15 as stated: within a session the steps occur in the order validated,
\* dialed, hijacked, 200 written, certificate issued, handshake.
C15_Write200BeforeIssue ==
    \A c \in Conns :
      StepsInOrder(c, <<"validated", "dialed", "hijacked", "wrote200",
                        "issued", "handshake">>)

\* C15 as amended: the order is validated, dialed, hijacked, certificate
\* issued, 200 written, handshake; a session whose issuance failed has no 200
\* line on its stream.
C15_IssueBeforeWrite200 ==
    \A c \in Conns :
      /\ StepsInOrder(c, <<"validated", "dialed", "hijacked", "issued",
                           "wrote200", "handshake">>)
      /\ sess[c].err \in {"splitHostPort", "issuance", "x509KeyPair"} =>
            sess[c].raw = <<>>
      /\ sess[c].raw # <<>> => 0 < StepAt(c, "issued")

C15_Witness ==
    \E c \in Conns :
      /\ sess[c].pc = "handshaking"
      /\ sess[c].steps = <<"validated", "dialed", "hijacked", "issued", "wrote200">>
      /\ sess[c].raw = <<Line200>>

\* The number of status responses session c has sent to its client: the
\* status the HTTP framework wrote, and the lines written on the raw stream.
Responses(c) == (IF sess[c].status # 0 THEN 1 ELSE 0) + Len(sess[c].raw)

\* C17: a CONNECT request is sent at most one status response; a status
\* written through the ResponseWriter (503) excludes the hijack, and a
\* hijacked connection carries nothing from the ResponseWriter and the raw
\* 200 line at most once, exactly once when the handshake is entered.
C17_OneResponse ==
    \A c \in Conns :
      sess[c].method = "CONNECT" =>
        /\ Responses(c) <= 1
        /\ sess[c].status # 0 =>
              /\ sess[c].status = StatusServiceUnavailable
              /\ StepAt(c, "hijacked") = 0
              /\ sess[c].client # "hijacked"
              /\ sess[c].raw = <<>>
        /\ StepAt(c, "hijacked") > 0 =>
              /\ sess[c].status = 0 /\ sess[c].body = <<>>
              /\ sess[c].raw \in {<<>>, <<Line200>>}
        /\ (sess[c].pc = "handshaking" \/ sess[c].hs = "ok") =>
              sess[c].raw = <<Line200>>

C17_Witness ==
    \E c, d \in Conns :
      /\ sess[c].method = "CONNECT" /\ sess[c].status = StatusServiceUnavailable
      /\ sess[c].pc = "returned"
      /\ sess[d].method = "CONNECT" /\ sess[d].hs = "ok"
      /\ sess[d].raw = <<Line200>> /\ sess[d].status = 0

\* C16: every store access of a task-server handler is made with the
\* taskServer mutex held by that handler, at most one handler is inside a
\* store operation at a time, and a handler that has returned does not hold
\* the mutex.
C16_StoreUnderMutex ==
    /\ \A h \in Handlers :
         /\ hand[h].pc \in {"store", "unlock"} => tsMu = h
         /\ hand[h].pc \in {"idle", "lock", "respond", "done"} => tsMu # h
    /\ Cardinality({h \in Handlers : hand[h].pc = "store"}) <= 1

C16_Witness ==
    \E h, g \in Handlers :
      /\ h # g /\ hand[h].pc = "store" /\ tsMu = h
      /\ hand[g].pc = "lock"

\* C18: a createTaskHandler request whose body failed to bind is answered
\* with 400 only and creates no task.
C18_BindFailureIs400Only ==
    \A h \in Handlers :
      (hand[h].kind = "create" /\ ~hand[h].bound /\ hand[h].pc = "done") =>
        /\ hand[h].writes = <<400>>
        /\ hand[h].id = -1

\* C19: singleConnListener hands out its connection at most once: the
\* connection is with the listener, or in the hands of exactly one Accept
\* call; once any Accept call has returned, exactly one call has returned the
\* connection and every other one returned nil with io.ErrClosedPipe; a Close
\* or Addr call changes neither the connection field nor who received it.
C19_HandedOutOnce ==
    /\ [](/\ \A k \in Callers : call[k].conns <= 1
          /\ Cardinality({k \in Callers : call[k].conns = 1})
               + Cardinality({k \in Callers : call[k].pc = "ret" /\ call[k].c = "conn"})
               + (IF lnConn = "conn" THEN 1 ELSE 0) = 1
          /\ (\E k \in Callers : call[k].conns + call[k].errs > 0) =>
               Cardinality({k \in Callers : call[k].conns = 1}) = 1
          /\ \A k \in Callers : call[k].pc = "ret" /\ call[k].c = "nil" =>
               lnConn = "nil")
    /\ [][(\E k \in Callers : Close(k) \/ Addr(k)) =>
            /\ lnConn' = lnConn
            /\ \A k \in Callers : call'[k].conns = call[k].conns
                                   /\ call'[k].errs = call[k].errs]_vars

C19_Witness ==
    \E k, j \in Callers :
      /\ k # j
      /\ call[k].conns = 1 /\ call[k].last = "Close"
      /\ call[j].errs >= 1 /\ call[j].last = "ErrClosedPipe"

====
